---- MODULE Spec2Model ----
(***************************************************************************)
(* Model of the wavevm assembler front end: the length-tagged lexer        *)
(* (src/src/reader.rs) and the operand encodings of the instruction IR     *)
(* (src/src/instruction.rs).                                               *)
(*                                                                         *)
(* Characters are Unicode code points (integers); a source text is a       *)
(* sequence of code points.  Lengths are byte lengths of the UTF-8         *)
(* encoding, as str::len() gives them.                                     *)
(***************************************************************************)
EXTENDS Integers, Sequences, FiniteSets

VARIABLES
    \* ---- Reader (reader.rs) ----
    src,            \* the borrowed source text
    pos,            \* chars: the number of characters the iterator has yielded
    len_at_start,   \* Reader.len_at_start
    pc,             \* position inside next(): "idle" | "eat" (inside eat_while)
    kind,           \* the TokenKind the running helper will return
    status,         \* "running" | "panicked"
    toks,           \* history: the Tokens next() has returned, in order
    spans,          \* history: per returned token, the cursor before and after
    tokFrom,        \* history: the cursor when the running call was entered
    calls,          \* history: the number of calls of next() entered
    \* ---- operands (instruction.rs) ----
    reg,            \* the RegSelector built last, or None
    amount,         \* the ShiftAmount built last, or None
    insn,           \* the shift Instruction built, or None
    sel,            \* the SetSelector, or None
    swz,            \* the SwizzleSelector, or None
    swzLast,        \* history: per slot, the component written last (x if none)
    call,           \* history: the last call, its arguments and what it returned
    irStatus        \* "running" | "panicked" (an assertion failed)

readerVars == <<src, pos, len_at_start, pc, kind, status, toks, spans, tokFrom, calls>>

irVars == <<reg, amount, insn, sel, swz, swzLast, call, irStatus>>

vars == <<readerVars, irVars>>

\* ------------------------------------------------------------------ bounds

\* longest enumerated source text (in characters)
MaxLen == 3
\* calls of next() made after the first EoF token
MaxEofCalls == 3
\* largest logical index handed to a RegSelector constructor
MaxRegArg == 8
\* largest value handed to ShiftAmount::Const
MaxShiftArg == 16
\* largest offset handed to SwizzleSelector::set
MaxOffset == 8
\* longest enumerated source text of the fair specification
MaxLiveLen == 2

\* ------------------------------------------------------------- characters

\* '#' '\n' ' ' U+00A0 (2-byte whitespace) 'a' '1' ',' '+' '@' NUL U+00E9
Alphabet == {35, 10, 32, 160, 97, 49, 44, 43, 64, 0, 233}

\* "mov r0.xy, r1.xy\n"
SrcMov == <<109, 111, 118, 32, 114, 48, 46, 120, 121, 44, 32,
            114, 49, 46, 120, 121, 10>>
\* " \n "
SrcWs == <<32, 10, 32>>
\* "# hi\n"
SrcComment == <<35, 32, 104, 105, 10>>
\* "[r0+]_A9\t\u{3000}#\u{e9}"
SrcMisc == <<91, 114, 48, 43, 93, 95, 65, 57, 9, 12288, 35, 233>>

SeqsUpTo(n) == UNION {[1..k -> Alphabet] : k \in 0..n}

Sources == SeqsUpTo(MaxLen) \cup {SrcMov, SrcWs, SrcComment, SrcMisc}

LiveSources == SeqsUpTo(MaxLiveLen) \cup {SrcWs, SrcComment}

\* ---------------------------------------------------- std character tests

\* char::is_whitespace: the Unicode White_Space property
is_whitespace(c) ==
    \/ (c >= 9 /\ c <= 13)
    \/ c \in {32, 133, 160, 5760}
    \/ (c >= 8192 /\ c <= 8202)
    \/ c \in {8232, 8233, 8239, 8287, 12288}

\* char::is_ascii_digit
is_ascii_digit(c) == c >= 48 /\ c <= 57

\* the bytes of one character in a str
len_utf8(c) ==
    IF c < 128 THEN 1 ELSE IF c < 2048 THEN 2 ELSE IF c < 65536 THEN 3 ELSE 4

RECURSIVE StrLen(_)
\* str::len(): the byte length of a text
StrLen(s) == IF s = <<>> THEN 0 ELSE len_utf8(Head(s)) + StrLen(Tail(s))

\* --------------------------------------------------------------- reader.rs

is_ident_start(c) ==
    (c >= 97 /\ c <= 122) \/ (c >= 65 /\ c <= 90) \/ c = 95

\* mutant: digits do not continue an identifier
is_ident_continue_NoDigits(c) ==
    (c >= 97 /\ c <= 122) \/ (c >= 65 /\ c <= 90) \/ c = 95

is_ident_continue(c) ==
    (c >= 97 /\ c <= 122) \/ (c >= 65 /\ c <= 90) \/ (c >= 48 /\ c <= 57) \/ c = 95

Token_new(k, l) == [kind |-> k, len |-> l]

\* self.chars.as_str() with the iterator at p
as_str(p) == SubSeq(src, p + 1, Len(src))

\* mutant: the iterator restarts when it is asked past the end
chars_next_Wrap(p) == IF p < Len(src) THEN p + 1 ELSE 0

\* the iterator after self.chars.next(); at the end it stays (Chars is fused)
chars_next(p) == IF p < Len(src) THEN p + 1 ELSE p

\* self.chars.clone().next().unwrap_or('\0')
peek(p) == IF p < Len(src) THEN src[p + 1] ELSE 0

\* mutant: the length is taken in characters (chars().count())
token_len_Chars(p) == len_at_start - Len(as_str(p))

token_len(p) == len_at_start - StrLen(as_str(p))

\* mutant: the recorded length is not refreshed
reset_len_Stale(p) == len_at_start

\* the new value of len_at_start
reset_len(p) == StrLen(as_str(p))

\* mutant: end of input is never reported
at_eof_Never(p) == FALSE

at_eof(p) == as_str(p) = <<>>

\* mutant: the arm for '+' is missing
StartKind_NoPlus(c) ==
    IF c = 35 THEN "Comment"
    ELSE IF c = 10 THEN "Newline"
    ELSE IF is_whitespace(c) THEN "Whitespace"
    ELSE IF is_ident_start(c) THEN "Ident"
    ELSE IF is_ascii_digit(c) THEN "Number"
    ELSE IF c = 44 THEN "Comma"
    ELSE IF c = 46 THEN "Dot"
    ELSE IF c = 91 THEN "LeftBracket"
    ELSE IF c = 93 THEN "RightBracket"
    ELSE "panic"

\* the match on start_c in next(): the kind, or "panic"
StartKind(c) ==
    IF c = 35 THEN "Comment"
    ELSE IF c = 10 THEN "Newline"
    ELSE IF is_whitespace(c) THEN "Whitespace"
    ELSE IF is_ident_start(c) THEN "Ident"
    ELSE IF is_ascii_digit(c) THEN "Number"
    ELSE IF c = 44 THEN "Comma"
    ELSE IF c = 46 THEN "Dot"
    ELSE IF c = 91 THEN "LeftBracket"
    ELSE IF c = 93 THEN "RightBracket"
    ELSE IF c = 43 THEN "Plus"
    ELSE "panic"

\* the kinds whose helper runs eat_while
Eating == {"Comment", "Whitespace", "Ident", "Number"}

\* the closure each helper hands to eat_while
EatPred(k, c) ==
    CASE k = "Comment" -> c # 10
      [] k = "Whitespace" -> c # 10 /\ is_whitespace(c)
      [] k = "Ident" -> is_ident_continue(c)
      [] k = "Number" -> is_ascii_digit(c)
      [] OTHER -> FALSE

\* the condition of eat_while's loop
EatCond(k, p) == EatPred(k, peek(p)) /\ ~at_eof(p)

EofCount == Cardinality({i \in DOMAIN toks : toks[i].kind = "EoF"})

\* Reader::new(src)
ReaderNew(s) ==
    /\ src = s
    /\ pos = 0
    /\ len_at_start = StrLen(s)
    /\ pc = "idle"
    /\ kind = "none"
    /\ status = "running"
    /\ toks = <<>>
    /\ spans = <<>>
    /\ tokFrom = 0
    /\ calls = 0

\* next(): chars.next() is None, EoF is returned
NextEof ==
    /\ pc = "idle" /\ status = "running"
    /\ pos >= Len(src)
    /\ EofCount < MaxEofCalls
    /\ pos' = chars_next(pos)
    /\ toks' = Append(toks, Token_new("EoF", 0))
    /\ spans' = Append(spans, [from |-> pos, to |-> pos'])
    /\ tokFrom' = pos
    /\ calls' = calls + 1
    /\ UNCHANGED <<src, len_at_start, pc, kind, status>>
    /\ UNCHANGED irVars

\* next(): start_c is a one-character token
NextSingle ==
    /\ pc = "idle" /\ status = "running"
    /\ pos < Len(src)
    /\ StartKind(src[pos + 1]) \notin Eating \cup {"panic"}
    /\ pos' = chars_next(pos)
    /\ toks' = Append(toks, Token_new(StartKind(src[pos + 1]), token_len(pos')))
    /\ len_at_start' = reset_len(pos')
    /\ spans' = Append(spans, [from |-> pos, to |-> pos'])
    /\ tokFrom' = pos
    /\ calls' = calls + 1
    /\ UNCHANGED <<src, pc, kind, status>>
    /\ UNCHANGED irVars

\* next(): start_c opens a comment, whitespace, identifier or number
NextBegin ==
    /\ pc = "idle" /\ status = "running"
    /\ pos < Len(src)
    /\ StartKind(src[pos + 1]) \in Eating
    /\ pos' = chars_next(pos)
    /\ kind' = StartKind(src[pos + 1])
    /\ pc' = "eat"
    /\ tokFrom' = pos
    /\ calls' = calls + 1
    /\ UNCHANGED <<src, len_at_start, status, toks, spans>>
    /\ UNCHANGED irVars

\* next(): start_c starts no token
NextPanic ==
    /\ pc = "idle" /\ status = "running"
    /\ pos < Len(src)
    /\ StartKind(src[pos + 1]) = "panic"
    /\ pos' = chars_next(pos)
    /\ status' = "panicked"
    /\ tokFrom' = pos
    /\ calls' = calls + 1
    /\ UNCHANGED <<src, len_at_start, pc, kind, toks, spans>>
    /\ UNCHANGED irVars

\* eat_while: one turn of the loop
EatStep ==
    /\ pc = "eat"
    /\ EatCond(kind, pos)
    /\ pos' = chars_next(pos)
    /\ UNCHANGED <<src, len_at_start, pc, kind, status, toks, spans, tokFrom, calls>>
    /\ UNCHANGED irVars

\* eat_while has left its loop: the token is built and the length reset
EatReturn ==
    /\ pc = "eat"
    /\ ~EatCond(kind, pos)
    /\ toks' = Append(toks, Token_new(kind, token_len(pos)))
    /\ len_at_start' = reset_len(pos)
    /\ spans' = Append(spans, [from |-> tokFrom, to |-> pos])
    /\ pc' = "idle"
    /\ kind' = "none"
    /\ UNCHANGED <<src, pos, status, tokFrom, calls>>
    /\ UNCHANGED irVars

\* ---------------------------------------------------------- instruction.rs

\* Option: None is <<>>, Some(v) is <<v>>
None == <<>>
Some(v) == <<v>>

U8Max == 255

U8 == 0..U8Max

\* 2^n
Pow2(n) == IF n = 0 THEN 1 ELSE IF n = 1 THEN 2 ELSE IF n = 2 THEN 4
           ELSE IF n = 3 THEN 8 ELSE IF n = 4 THEN 16 ELSE IF n = 5 THEN 32
           ELSE IF n = 6 THEN 64 ELSE IF n = 7 THEN 128 ELSE 256

RECURSIVE AndBits(_, _, _)
AndBits(a, b, n) ==
    IF n = 0 THEN 0
    ELSE (IF a % 2 = 1 /\ b % 2 = 1 THEN 1 ELSE 0)
         + 2 * AndBits(a \div 2, b \div 2, n - 1)

RECURSIVE OrBits(_, _, _)
OrBits(a, b, n) ==
    IF n = 0 THEN 0
    ELSE (IF a % 2 = 1 \/ b % 2 = 1 THEN 1 ELSE 0)
         + 2 * OrBits(a \div 2, b \div 2, n - 1)

\* the u8 operators & | ! << >>
BitAnd8(a, b) == AndBits(a, b, 8)
BitOr8(a, b) == OrBits(a, b, 8)
Not8(a) == U8Max - a
Shl8(a, n) == (a * Pow2(n)) % (U8Max + 1)
Shr8(a, n) == a \div Pow2(n)

MAX_REG_IDX == 7
DATA_IDX_OFFSET == 8

\* ---- RegSelector

\* RegSelector::new_const's value (its assertion is the action's guard)
new_const(idx) == [idx |-> idx]

\* mutant: the offset of the general purpose registers is left out
new_gpr_NoOffset(idx) == [idx |-> idx]

new_gpr(idx) == [idx |-> (idx + DATA_IDX_OFFSET) % (U8Max + 1)]

is_const(r) == r.idx <= MAX_REG_IDX

is_gpr(r) == MAX_REG_IDX < r.idx /\ r.idx <= DATA_IDX_OFFSET + MAX_REG_IDX

DigitChars == <<"0", "1", "2", "3", "4", "5", "6", "7", "8", "9">>

RECURSIVE DecStr(_)
\* "{}" of an unsigned integer
DecStr(n) ==
    IF n < 10 THEN <<DigitChars[n + 1]>>
    ELSE DecStr(n \div 10) \o <<DigitChars[(n % 10) + 1]>>

\* impl fmt::Display for RegSelector; "unreachable" stands for unreachable!()
RegDisplay(r) ==
    IF r.idx >= 0 /\ r.idx <= 7 THEN <<"c">> \o DecStr(r.idx)
    ELSE IF r.idx >= 8 /\ r.idx <= 14 THEN <<"r">> \o DecStr(r.idx - DATA_IDX_OFFSET)
    ELSE IF r.idx = 15 THEN <<"r", "i">>
    ELSE <<"unreachable">>

\* ---- SetSelector

SetSelector_empty == 0

SetSelector_from_bits(bits) == bits

\* what set(idx) returns
SetSelector_set_ret(s, idx) == BitAnd8(s, Shl8(1, idx)) # 0

\* mutant: the bit is toggled instead of set
SetSelector_set_Toggle(s, idx) ==
    IF BitAnd8(s, Shl8(1, idx)) # 0 THEN s - Shl8(1, idx) ELSE s + Shl8(1, idx)

\* the selector after set(idx)
SetSelector_set(s, idx) == BitOr8(s, Shl8(1, idx))

SetSelector_x(s) == BitAnd8(s, 1) # 0
SetSelector_y(s) == BitAnd8(s, 2) # 0
SetSelector_z(s) == BitAnd8(s, 4) # 0
SetSelector_w(s) == BitAnd8(s, 8) # 0

\* ---- SwizzleSelector

SwizzleSelector_empty == 0

\* mutant: the slot is not cleared before it is written
SwizzleSelector_set_NoClear(s, offset, selected) ==
    BitOr8(s, Shl8(BitAnd8(selected, 3), BitAnd8(offset, 3) * 2))

\* the selector after set(offset, selected)
SwizzleSelector_set(s, offset, selected) ==
    LET shift == BitAnd8(offset, 3) * 2
        cleared == BitAnd8(s, Not8(Shl8(3, shift)))
    IN  BitOr8(cleared, Shl8(BitAnd8(selected, 3), shift))

\* elem_name of the Debug impl
elem_name(idx) ==
    LET i == BitAnd8(idx, 3)
    IN  IF i = 0 THEN "x" ELSE IF i = 1 THEN "y" ELSE IF i = 2 THEN "z" ELSE "w"

\* the "selector" field of impl fmt::Debug for SwizzleSelector
SwizzleDebug(s) ==
    << elem_name(BitAnd8(s, 3)),
       elem_name(Shr8(BitAnd8(s, 12), 2)),
       elem_name(Shr8(BitAnd8(s, 48), 4)),
       elem_name(Shr8(BitAnd8(s, 192), 6)) >>

\* ---- ShiftAmount, InstructionKind

ShiftAmount_Register(r) == [tag |-> "Register", reg |-> r]

\* the variant Const(u8, Span): any u8 is accepted
ShiftAmount_Const(v) == [tag |-> "Const", val |-> v]

ShiftKinds == {"ShiftLeft", "ShiftRightLogical", "ShiftRightArithmetic",
               "RotateLeft", "RotateRight"}

OpSizes == {"Byte", "Word"}

Instruction_new(k, size, dst, amt) ==
    [kind |-> k, size |-> size, dst |-> dst, amount |-> amt]

\* ------------------------------------------------------- operand actions

Call(fn, args, before, ret) ==
    [fn |-> fn, args |-> args, before |-> before, ret |-> ret]

IrNew ==
    /\ reg = None /\ amount = None /\ insn = None
    /\ sel = None /\ swz = None
    /\ swzLast = [i \in 0..3 |-> 0]
    /\ call = Call("none", <<>>, None, None)
    /\ irStatus = "running"

\* RegSelector::new_const(idx, span)
RegNewConst(n) ==
    /\ irStatus = "running" /\ insn = None
    /\ call' = Call("new_const", <<n>>, None, None)
    /\ IF n <= MAX_REG_IDX
       THEN reg' = Some(new_const(n)) /\ UNCHANGED irStatus
       ELSE irStatus' = "panicked" /\ UNCHANGED reg
    /\ UNCHANGED <<amount, insn, sel, swz, swzLast>>
    /\ UNCHANGED readerVars

\* RegSelector::new_gpr(idx, span)
RegNewGpr(n) ==
    /\ irStatus = "running" /\ insn = None
    /\ call' = Call("new_gpr", <<n>>, None, None)
    /\ IF n <= MAX_REG_IDX
       THEN reg' = Some(new_gpr(n)) /\ UNCHANGED irStatus
       ELSE irStatus' = "panicked" /\ UNCHANGED reg
    /\ UNCHANGED <<amount, insn, sel, swz, swzLast>>
    /\ UNCHANGED readerVars

\* ShiftAmount::Register(reg)
AmountRegister ==
    /\ irStatus = "running" /\ insn = None
    /\ reg # None
    /\ amount' = Some(ShiftAmount_Register(reg[1]))
    /\ call' = Call("Register", <<reg[1].idx>>, None, None)
    /\ UNCHANGED <<reg, insn, sel, swz, swzLast, irStatus>>
    /\ UNCHANGED readerVars

\* ShiftAmount::Const(v, span)
AmountConst(v) ==
    /\ irStatus = "running" /\ insn = None
    /\ amount' = Some(ShiftAmount_Const(v))
    /\ call' = Call("Const", <<v>>, None, None)
    /\ UNCHANGED <<reg, insn, sel, swz, swzLast, irStatus>>
    /\ UNCHANGED readerVars

\* Instruction::new(InstructionKind::<shift or rotate> {size, dst, amount}, span)
BuildShift(k, size) ==
    /\ irStatus = "running" /\ insn = None
    /\ reg # None /\ amount # None
    /\ insn' = Some(Instruction_new(k, size, reg[1], amount[1]))
    /\ call' = Call("Instruction", <<>>, None, None)
    /\ UNCHANGED <<reg, amount, sel, swz, swzLast, irStatus>>
    /\ UNCHANGED readerVars

\* SetSelector::empty(span)
SetEmpty ==
    /\ irStatus = "running"
    /\ sel' = Some(SetSelector_empty)
    /\ call' = Call("empty", <<>>, sel, None)
    /\ UNCHANGED <<reg, amount, insn, swz, swzLast, irStatus>>
    /\ UNCHANGED readerVars

\* SetSelector::from_bits(bits, span)
SetFromBits(bits) ==
    /\ irStatus = "running"
    /\ call' = Call("from_bits", <<bits>>, sel, None)
    /\ IF bits <= 15
       THEN sel' = Some(SetSelector_from_bits(bits)) /\ UNCHANGED irStatus
       ELSE irStatus' = "panicked" /\ UNCHANGED sel
    /\ UNCHANGED <<reg, amount, insn, swz, swzLast>>
    /\ UNCHANGED readerVars

\* SetSelector::set(idx)
SetSet(idx) ==
    /\ irStatus = "running"
    /\ sel # None
    /\ IF idx < 4
       THEN /\ sel' = Some(SetSelector_set(sel[1], idx))
            /\ call' = Call("set", <<idx>>, sel, Some(SetSelector_set_ret(sel[1], idx)))
            /\ UNCHANGED irStatus
       ELSE /\ irStatus' = "panicked"
            /\ call' = Call("set", <<idx>>, sel, None)
            /\ UNCHANGED sel
    /\ UNCHANGED <<reg, amount, insn, swz, swzLast>>
    /\ UNCHANGED readerVars

\* SwizzleSelector::empty(span)
SwzEmpty ==
    /\ irStatus = "running"
    /\ swz' = Some(SwizzleSelector_empty)
    /\ swzLast' = [i \in 0..3 |-> 0]
    /\ call' = Call("swz_empty", <<>>, swz, None)
    /\ UNCHANGED <<reg, amount, insn, sel, irStatus>>
    /\ UNCHANGED readerVars

\* SwizzleSelector::set(offset, selected)
SwzSet(offset, selected) ==
    /\ irStatus = "running"
    /\ swz # None
    /\ swz' = Some(SwizzleSelector_set(swz[1], offset, selected))
    /\ swzLast' = [swzLast EXCEPT ![offset % 4] = selected]
    /\ call' = Call("swz_set", <<offset, selected>>, swz, None)
    /\ UNCHANGED <<reg, amount, insn, sel, irStatus>>
    /\ UNCHANGED readerVars

\* --------------------------------------------------------- specifications

ReaderNext ==
    \/ NextEof
    \/ NextSingle
    \/ NextBegin
    \/ NextPanic
    \/ EatStep
    \/ EatReturn

ReaderInit == IrNew /\ \E s \in Sources : ReaderNew(s)

\* the lexer, over every enumerated source text
ReaderSpec == ReaderInit /\ [][ReaderNext]_vars

ReaderLiveInit == IrNew /\ \E s \in LiveSources : ReaderNew(s)

\* the lexer driven by a caller that keeps calling next(): a call that has
\* started runs on, and the caller calls again
ReaderLiveSpec == ReaderLiveInit /\ [][ReaderNext]_vars /\ WF_vars(ReaderNext)

OperandNext ==
    \/ \E n \in 0..MaxRegArg : RegNewConst(n)
    \/ \E n \in 0..MaxRegArg : RegNewGpr(n)
    \/ AmountRegister
    \/ \E v \in 0..MaxShiftArg : AmountConst(v)
    \/ \E k \in ShiftKinds, s \in OpSizes : BuildShift(k, s)

OperandInit == IrNew /\ ReaderNew(<<>>)

\* a caller building register selectors, shift amounts and one shift instruction
OperandSpec == OperandInit /\ [][OperandNext]_vars

SetNext ==
    \/ SetEmpty
    \/ \E b \in U8 : SetFromBits(b)
    \/ \E i \in U8 : SetSet(i)

\* a caller building and filling a SetSelector
SetSpec == OperandInit /\ [][SetNext]_vars

SwizzleNext ==
    \/ SwzEmpty
    \/ \E o \in 0..MaxOffset, c \in 0..3 : SwzSet(o, c)

\* a caller building and filling a SwizzleSelector
SwizzleSpec == OperandInit /\ [][SwizzleNext]_vars

\* ------------------------------------------------------------------ claims

Idle == pc = "idle" /\ status = "running"

SawEof == \E i \in DOMAIN toks : toks[i].kind = "EoF"

RECURSIVE SumLens(_)
SumLens(ts) == IF ts = <<>> THEN 0 ELSE Head(ts).len + SumLens(Tail(ts))

\* the character classes as the classification table states them
IdentStartSet == (65..90) \cup (97..122) \cup {95}
IdentContSet == IdentStartSet \cup (48..57)
DigitSet == 48..57
WhiteSet == (9..13) \cup {32, 133, 160, 5760} \cup (8192..8202)
            \cup {8232, 8233, 8239, 8287, 12288}
PunctKind(c) ==
    CASE c = 44 -> "Comma" [] c = 46 -> "Dot" [] c = 91 -> "LeftBracket"
      [] c = 93 -> "RightBracket" [] c = 43 -> "Plus" [] OTHER -> "none"

\* the kind the table gives for the remaining input at cursor f
TableKind(f) ==
    IF f >= Len(src) THEN "EoF"
    ELSE LET c == src[f + 1]
         IN  IF c = 35 THEN "Comment"
             ELSE IF c = 10 THEN "Newline"
             ELSE IF c \in WhiteSet THEN "Whitespace"
             ELSE IF c \in IdentStartSet THEN "Ident"
             ELSE IF c \in DigitSet THEN "Number"
             ELSE PunctKind(c)

\* the table's extension rule: may c extend a token of kind k
TableExtends(k, c) ==
    CASE k = "Comment" -> c # 10
      [] k = "Whitespace" -> c \in WhiteSet /\ c # 10
      [] k = "Ident" -> c \in IdentContSet
      [] k = "Number" -> c \in DigitSet
      [] OTHER -> FALSE

\* [f, t) is the longest run the table allows for a token of kind k
LongestRun(k, f, t) ==
    IF k = "EoF" THEN t = f
    ELSE /\ t > f /\ t <= Len(src)
         /\ \A j \in (f + 2)..t : TableExtends(k, src[j])
         /\ (t < Len(src) => ~TableExtends(k, src[t + 1]))

Tok(k, l) == [kind |-> k, len |-> l]

MovTokens ==
    << Tok("Ident", 3), Tok("Whitespace", 1), Tok("Ident", 2), Tok("Dot", 1),
       Tok("Ident", 2), Tok("Comma", 1), Tok("Whitespace", 1), Tok("Ident", 2),
       Tok("Dot", 1), Tok("Ident", 2), Tok("Newline", 1), Tok("EoF", 0) >>

WsTokens == << Tok("Whitespace", 1), Tok("Newline", 1), Tok("Whitespace", 1), Tok("EoF", 0) >>

CommentTokens == << Tok("Comment", 4), Tok("Newline", 1), Tok("EoF", 0) >>

\* the tokens returned so far are the first tokens of `expected`, and EoF after it
Yields(expected) ==
    \A i \in DOMAIN toks :
        toks[i] = IF i <= Len(expected) THEN expected[i] ELSE Tok("EoF", 0)

\* C1: EoF stability. Once next() has returned an EoF token, a later step
\* moves neither the cursor nor the recorded length, and a later call does
\* nothing but return one more EoF token of length 0.
C1_EofStable ==
    [][ (toks # <<>> /\ toks[Len(toks)].kind = "EoF")
        => /\ pos' = pos
           /\ len_at_start' = len_at_start
           /\ status' = "running" /\ pc' = "idle"
           /\ (calls' # calls => toks' = Append(toks, Tok("EoF", 0))) ]_vars

C1_Witness ==
    /\ Len(src) > 0
    /\ Len(toks) >= 3
    /\ toks[Len(toks) - 1].kind = "EoF"
    /\ toks[Len(toks)] = Tok("EoF", 0)

\* C2: classification and maximal span. Every token returned starts where
\* the one before ended, has the kind the table gives for the first remaining
\* character, and covers exactly the longest run of that kind's extension
\* rule; "mov r0.xy, r1.xy\n" and " \n " yield the stated sequences. (Stated
\* for every source text, which covers those without an unrecognized one.)
C2_ClassAndSpan ==
    /\ \A i \in DOMAIN toks :
        /\ spans[i].from = (IF i = 1 THEN 0 ELSE spans[i - 1].to)
        /\ toks[i].kind = TableKind(spans[i].from)
        /\ LongestRun(toks[i].kind, spans[i].from, spans[i].to)
    /\ (src = SrcMov => Yields(MovTokens))
    /\ (src = SrcWs => Yields(WsTokens))

C2_Witness == src = SrcMov /\ Len(toks) = 12 /\ toks[12].kind = "EoF"

Recognized(c) ==
    \/ c = 35
    \/ c \in WhiteSet
    \/ c \in IdentStartSet
    \/ c \in DigitSet
    \/ c \in {44, 46, 91, 93, 43}

\* C5: lexical failure is fatal. A call fails exactly when the first
\* remaining character starts no token: the failed call has returned no
\* token, nothing runs after it, and no call that met a recognized character
\* or the end of input has failed.
C5_FatalIffUnrecognized ==
    /\ status = "panicked" =>
        /\ tokFrom < Len(src) /\ ~Recognized(src[tokFrom + 1])
        /\ Len(toks) = calls - 1
        /\ ~ENABLED ReaderNext
    /\ status = "running" =>
        /\ Len(toks) = calls - (IF pc = "eat" THEN 1 ELSE 0)
        /\ \A i \in DOMAIN spans :
            spans[i].from < Len(src) => Recognized(src[spans[i].from + 1])
        /\ (pc = "eat" => Recognized(src[tokFrom + 1]))
    /\ (Idle /\ pos < Len(src)) =>
        /\ ENABLED NextPanic <=> ~Recognized(src[pos + 1])
        /\ (ENABLED NextSingle \/ ENABLED NextBegin) <=> Recognized(src[pos + 1])

C5_Witness ==
    /\ status = "panicked"
    /\ Len(toks) >= 1
    /\ toks[1].kind = "Comment"

ConstNames == << <<"c", "0">>, <<"c", "1">>, <<"c", "2">>, <<"c", "3">>,
                 <<"c", "4">>, <<"c", "5">>, <<"c", "6">>, <<"c", "7">> >>

GprNames == << <<"r", "0">>, <<"r", "1">>, <<"r", "2">>, <<"r", "3">>,
               <<"r", "4">>, <<"r", "5">>, <<"r", "6">>, <<"r", "i">> >>

\* C6: register index space. new_const(n) and new_gpr(n) with n <= 7 give
\* idx n and n + 8, the class predicates and the names c<n>, r<n> and ri; a
\* larger n fails the assertion; every selector built has idx <= 15 and is
\* exactly one of const and gpr; the 16 selectors have 16 names.
C6_RegIndexSpace ==
    /\ (call.fn = "new_const" /\ irStatus = "running") =>
        LET n == call.args[1]
        IN  /\ n <= 7
            /\ reg = Some([idx |-> n])
            /\ is_const(reg[1]) /\ ~is_gpr(reg[1])
            /\ RegDisplay(reg[1]) = ConstNames[n + 1]
    /\ (call.fn = "new_gpr" /\ irStatus = "running") =>
        LET n == call.args[1]
        IN  /\ n <= 7
            /\ reg = Some([idx |-> n + 8])
            /\ is_gpr(reg[1]) /\ ~is_const(reg[1])
            /\ RegDisplay(reg[1]) = GprNames[n + 1]
    /\ irStatus = "panicked" =>
        call.fn \in {"new_const", "new_gpr"} /\ call.args[1] > 7
    /\ reg # None =>
        /\ reg[1].idx \in 0..15
        /\ is_const(reg[1]) # is_gpr(reg[1])
    /\ insn # None =>
        /\ insn[1].dst.idx \in 0..15
        /\ is_const(insn[1].dst) # is_gpr(insn[1].dst)
    /\ Cardinality({RegDisplay(new_const(n)) : n \in 0..7}
                   \cup {RegDisplay(new_gpr(n)) : n \in 0..7}) = 16

C6_Witness ==
    /\ call.fn = "new_gpr" /\ call.args = <<7>>
    /\ reg = Some([idx |-> 15])
    /\ RegDisplay(reg[1]) = <<"r", "i">>

\* the two bits of slot i
Slot(bits, i) == (bits \div Pow2(2 * i)) % 4

Letters == <<"x", "y", "z", "w">>

\* C7: SwizzleSelector round trip. For every slot i the two bits at 2*i and
\* the i-th letter of the decoded string are the component of the last call
\* whose offset mod 4 is i, or x; a call with any offset is the call with
\* offset mod 4, and leaves the other three slots as they were.
C7_SwizzleRoundTrip ==
    /\ swz # None =>
        /\ swz[1] \in 0..255
        /\ \A i \in 0..3 :
            /\ Slot(swz[1], i) = swzLast[i]
            /\ SwizzleDebug(swz[1])[i + 1] = Letters[swzLast[i] + 1]
    /\ call.fn = "swz_set" =>
        LET before == call.before[1]
            offset == call.args[1]
            selected == call.args[2]
        IN  /\ swz[1] = SwizzleSelector_set(before, offset % 4, selected)
            /\ Slot(swz[1], offset % 4) = selected
            /\ \A j \in 0..3 : j # offset % 4 => Slot(swz[1], j) = Slot(before, j)

C7_Witness ==
    /\ call.fn = "swz_set"
    /\ call.args[1] > 3
    /\ call.args[2] = 1
    /\ Slot(call.before[1], call.args[1] % 4) = 2
    /\ \A j \in 0..3 : j # call.args[1] % 4 => Slot(swz[1], j) = 3

Bit(bits, i) == (bits \div Pow2(i)) % 2 = 1

\* C8: SetSelector duplicate detection. set(i) with i <= 3 returns true
\* exactly when bit i was set before, sets bit i and leaves the others; a
\* selector is always <= 0b1111 with x, y, z, w its bits 0 to 3; an argument
\* out of range fails the assertion.
C8_SetDuplicate ==
    /\ (call.fn = "set" /\ irStatus = "running") =>
        LET i == call.args[1]
            before == call.before[1]
        IN  /\ i <= 3
            /\ call.ret = Some(Bit(before, i))
            /\ Bit(sel[1], i)
            /\ \A j \in 0..3 : j # i => (Bit(sel[1], j) <=> Bit(before, j))
    /\ sel # None =>
        /\ sel[1] \in 0..15
        /\ SetSelector_x(sel[1]) = Bit(sel[1], 0)
        /\ SetSelector_y(sel[1]) = Bit(sel[1], 1)
        /\ SetSelector_z(sel[1]) = Bit(sel[1], 2)
        /\ SetSelector_w(sel[1]) = Bit(sel[1], 3)
    /\ (call.fn = "from_bits" /\ irStatus = "running") => sel = Some(call.args[1])
    /\ (call.fn = "empty") => sel = Some(0)
    /\ irStatus = "panicked" =>
        \/ call.fn = "from_bits" /\ call.args[1] > 15
        \/ call.fn = "set" /\ call.args[1] > 3

\* the second of two set(i): it returns true and the selector is unchanged
C8_Witness ==
    /\ call.fn = "set"
    /\ call.ret = Some(TRUE)
    /\ call.before = sel
    /\ sel[1] \in 1..14

\* C9: every ShiftAmount::Const that was built, and every such amount of a
\* shift or rotate instruction, has a value of at most 15.
C9_ConstInRange ==
    /\ (amount # None /\ amount[1].tag = "Const") => amount[1].val \in 0..15
    /\ (insn # None /\ insn[1].amount.tag = "Const") => insn[1].amount.val \in 0..15

Finished == status = "panicked" \/ SawEof

\* C10: progress and termination. A token other than EoF has length >= 1
\* and shrinks the unread input, EoF is returned only at the end of input,
\* the calls up to the first EoF or the failure number at most the byte
\* length of the source plus one, a running eat_while loop is left, and
\* repeated calls reach the first EoF token or the fatal error.
C10_Terminates ==
    /\ [](\A i \in DOMAIN toks :
            IF toks[i].kind = "EoF"
            THEN spans[i].from = Len(src) /\ as_str(spans[i].from) = <<>>
            ELSE /\ toks[i].len >= 1
                 /\ StrLen(as_str(spans[i].to)) < StrLen(as_str(spans[i].from)))
    /\ [](pos <= Len(src))
    /\ []((EofCount <= 1) => calls <= StrLen(src) + 1)
    /\ ((pc = "eat") ~> (pc = "idle"))
    /\ <>Finished

\* a comment that runs to the end of input has been returned, then EoF
C10_Witness ==
    /\ Len(toks) >= 2
    /\ toks[Len(toks) - 1].kind = "Comment"
    /\ spans[Len(toks) - 1].to = Len(src)
    /\ toks[Len(toks)].kind = "EoF"

====
